---- MODULE Spec2Model ----
(***************************************************************************)
(* The eventfs work queue (wq.c): one worker thread (eventfs_wq_main)      *)
(* draining an intrusive singly-linked chain of work requests that any     *)
(* number of producers append to (eventfs_wq_add), and the lifecycle       *)
(* operations of the owning service (eventfs_wq_init, _start, _stop,       *)
(* _free).                                                                 *)
(*                                                                         *)
(* Threads: the producers 1..NumProducers, the worker, and one owner       *)
(* thread that issues the lifecycle operations one after the other.  Each  *)
(* action is one step between two points where another thread can observe  *)
(* or change shared state.                                                 *)
(*                                                                         *)
(* pthread_cancel (wq.c:169) requests DEFERRED cancellation: the worker    *)
(* acts on it only at a cancellation point.  sem_wait (wq.c:44) is one;    *)
(* pthread_mutex_lock/unlock and sem_trywait are not; the diagnostic       *)
(* output around the callback (wq.c:72,74,78) and the callback itself      *)
(* (wq.c:73, supplied by the caller) may contain some, so whether a        *)
(* pending cancellation ends the thread there is a nondeterministic        *)
(* choice.                                                                 *)
(***************************************************************************)
EXTENDS Integers, Sequences, FiniteSets, TLC

\* ---- bounds of the model ------------------------------------------------
NumProducers == 2      \* producer threads
MaxReq       == 2      \* work requests ever constructed (malloc'ed nodes)
MaxStarts    == 2      \* successful eventfs_wq_start calls
MaxInits     == 1      \* eventfs_wq_init calls after a successful eventfs_wq_free

\* ---- program constants --------------------------------------------------
NULL   == 0
EINVAL == 22

Producers == 1..NumProducers
Nodes     == 1..MaxReq

\* Thread identities, as the holder of the mutex.
Worker      == << "worker", NULL >>
NoOne       == << "none", NULL >>
Producer(p) == << "producer", p >>

\* Inputs: producer p submits its own callback, each request carries its own
\* payload, and a callback returns 0 or a nonzero status.
CallbackOf(p) == << "callback", p >>
PayloadOf(n)  == << "payload", n >>
Statuses      == {0, 0 - 1}
NoFunc        == << "callback", NULL >>
NoData        == << "payload", NULL >>

\* Values errno can hold after a failed pthread_create (wq.c:146):
\* pthread_create returns its error number and does not set errno, so errno
\* is whatever it was before, 0 included.
Errnos == {0, 11}

VARIABLES
    inited,     \* the queue holds a live mutex and semaphore (after wq_init, until wq_free)
    work,       \* wq->work: head of the pending chain
    tail,       \* wq->tail
    running,    \* wq->running
    work_sem,   \* wq->work_sem: the semaphore's count
    work_lock,  \* wq->work_lock: the thread holding the mutex, or NoOne
    wreq,       \* node memory: node -> [work, work_data, next]
    mem,        \* node -> "unused" | "live" | "freed"
    wpc,        \* the worker thread's position; "none" when no thread exists
    work_itr,   \* eventfs_wq_main's local work_itr
    w_next,     \* eventfs_wq_main's local next
    w_rc,       \* eventfs_wq_main's local rc after a callback
    cancelReq,  \* a cancellation request is pending for the worker thread
    ppc,        \* producer -> position
    pnode,      \* producer -> the request it is submitting
    opc,        \* the owner thread's position inside eventfs_wq_stop, or "idle"
    ret,        \* the last lifecycle call that returned: [op, rc]
    nstarts,    \* successful starts so far
    ninits,     \* re-initialisations so far
    \* ---- history (observation only, never read by the program) ----
    owner,      \* node -> the producer that constructed it (0: none)
    made,       \* node -> [work, work_data] it was constructed with
    execLog,    \* sequence of [node, work, data]: callbacks invoked, in order
    completed,  \* nodes whose callback returned
    relWorker,  \* nodes released by the worker after execution
    relDestroy, \* nodes released by eventfs_wq_free
    abandoned,  \* nodes left in the private batch of a worker that was cancelled
    drain       \* "open": every eventfs_wq_add so far was called on a running
                \* queue and stop has not been called; "yes": stop was then
                \* called after all MaxReq calls had returned; "no": otherwise

vars == << inited, work, tail, running, work_sem, work_lock, wreq, mem, wpc,
           work_itr, w_next, w_rc, cancelReq, ppc, pnode, opc, ret, nstarts,
           ninits, owner, made, execLog, completed, relWorker, relDestroy,
           abandoned, drain >>

qvars    == << inited, work, tail, running, work_sem, work_lock >>
nodevars == << wreq, mem >>
wvars    == << wpc, work_itr, w_next, w_rc, cancelReq >>
pvars    == << ppc, pnode >>
ovars    == << opc, ret, nstarts, ninits >>
hvars    == << owner, made, execLog, completed, relWorker, relDestroy,
               abandoned, drain >>

\* ---- pure helpers ---------------------------------------------------------

\* eventfs_wreq_init (wq.c:218-225): zero the node, then set callback and payload.
eventfs_wreq_init(fn, data) == [work |-> fn, work_data |-> data, next |-> NULL]

\* eventfs_wreq_free (wq.c:228-232): zero the node.
eventfs_wreq_free == [work |-> NoFunc, work_data |-> NoData, next |-> NULL]

\* The nodes reachable from h through the next links of node memory m, in order.
RECURSIVE ChainFrom(_, _, _)
ChainFrom(m, h, fuel) ==
    IF h = NULL \/ fuel = 0 THEN << >>
    ELSE << h >> \o ChainFrom(m, m[h].next, fuel - 1)

Chain(h) == ChainFrom(wreq, h, MaxReq + 1)

SeqSet(s) == { s[i] : i \in 1..Len(s) }


\* ---- the state after eventfs_wq_new + eventfs_wq_init ------------------------

\* eventfs_wq_init (wq.c:105-120): the structure zeroed, the mutex unlocked,
\* the semaphore at 0.
Init ==
    /\ inited = TRUE
    /\ work = NULL
    /\ tail = NULL
    /\ running = FALSE
    /\ work_sem = 0
    /\ work_lock = NoOne
    /\ wreq = [n \in Nodes |-> eventfs_wreq_free]
    /\ mem = [n \in Nodes |-> "unused"]
    /\ wpc = "none"
    /\ work_itr = NULL
    /\ w_next = NULL
    /\ w_rc = 0
    /\ cancelReq = FALSE
    /\ ppc = [p \in Producers |-> "idle"]
    /\ pnode = [p \in Producers |-> NULL]
    /\ opc = "idle"
    /\ ret = [op |-> "init", rc |-> 0]
    /\ nstarts = 0
    /\ ninits = 0
    /\ owner = [n \in Nodes |-> 0]
    /\ made = [n \in Nodes |-> [work |-> NoFunc, work_data |-> NoData]]
    /\ execLog = << >>
    /\ completed = {}
    /\ relWorker = {}
    /\ relDestroy = {}
    /\ abandoned = {}
    /\ drain = "open"

\* ---- producers: eventfs_wreq_init, then eventfs_wq_add ------------------------

\* The node malloc hands out next: nodes are never reused.
FreshNode == CHOOSE n \in Nodes : mem[n] = "unused" /\ \A k \in Nodes : mem[k] = "unused" => n <= k

\* The caller allocates a request, constructs it (wq.c:218-225) and calls
\* eventfs_wq_add, which takes the lock (wq.c:240).  Construction touches
\* only memory private to the caller.  No call is made on a queue that is
\* being or has been torn down (see Call).
AddLock(p) ==
    /\ ppc[p] = "idle"
    /\ inited
    /\ ~(opc = "free" /\ ~running)
    /\ \E n \in Nodes : mem[n] = "unused"
    /\ work_lock = NoOne
    /\ LET n == FreshNode IN
         /\ wreq' = [wreq EXCEPT ![n] = eventfs_wreq_init(CallbackOf(p), PayloadOf(n))]
         /\ mem' = [mem EXCEPT ![n] = "live"]
         /\ pnode' = [pnode EXCEPT ![p] = n]
         /\ owner' = [owner EXCEPT ![n] = p]
         /\ made' = [made EXCEPT ![n] = [work |-> CallbackOf(p), work_data |-> PayloadOf(n)]]
    /\ work_lock' = Producer(p)
    /\ ppc' = [ppc EXCEPT ![p] = "append"]
    /\ drain' = IF running THEN drain ELSE "no"
    /\ UNCHANGED << inited, work, tail, running, work_sem, wvars, ovars,
                    execLog, completed, relWorker, relDestroy, abandoned >>

\* Mutant of AddLink: the request is linked in front of the chain.
AddLink_Prepend(n) ==
    IF work = NULL
    THEN << n, n, wreq >>
    ELSE << n, tail, [wreq EXCEPT ![n].next = work] >>

\* Mutant of AddLink: the request replaces the chain instead of extending it.
AddLink_Overwrite(n) == << n, n, wreq >>

\* Mutant of AddLink: the tail pointer is moved but the old tail's next link
\* is not written.
AddLink_Unlinked(n) ==
    IF work = NULL
    THEN << n, n, wreq >>
    ELSE << work, n, wreq >>

\* The chain update of eventfs_wq_add (wq.c:242-251), as the new
\* << work, tail, node memory >>.
AddLink(n) ==
    IF work = NULL
    THEN << n, n, wreq >>
    ELSE << work, n, [wreq EXCEPT ![tail].next = n] >>

\* eventfs_wq_add appends and releases the lock (wq.c:242-253).  The code
\* does not test who holds the mutex: that the caller does is a consequence
\* of wq.c:240 coming first.
AddAppend(p) ==
    /\ ppc[p] = "append"
    /\ LET r == AddLink(pnode[p]) IN
         /\ work' = r[1]
         /\ tail' = r[2]
         /\ wreq' = r[3]
    /\ work_lock' = NoOne
    /\ ppc' = [ppc EXCEPT ![p] = "post"]
    /\ UNCHANGED << inited, running, work_sem, mem, wvars, pnode, ovars, hvars >>

\* Mutant of AddPost: eventfs_wq_add returns without posting the semaphore.
AddPost_NoSignal(p) ==
    /\ ppc[p] = "post"
    /\ ppc' = [ppc EXCEPT ![p] = "idle"]
    /\ pnode' = [pnode EXCEPT ![p] = NULL]
    /\ UNCHANGED << qvars, nodevars, wvars, ovars, hvars >>

\* eventfs_wq_add posts the semaphore and returns 0 (wq.c:255-260).
AddPost(p) ==
    /\ ppc[p] = "post"
    /\ work_sem' = work_sem + 1
    /\ ppc' = [ppc EXCEPT ![p] = "idle"]
    /\ pnode' = [pnode EXCEPT ![p] = NULL]
    /\ UNCHANGED << inited, work, tail, running, work_lock, nodevars, wvars,
                    ovars, hvars >>


\* ---- the worker thread: eventfs_wq_main -------------------------------------

\* The worker thread exists and has not ended: "exited" is a return through
\* the loop condition or the break at wq.c:56, "failed" a return through the
\* break at wq.c:50, "cancelled" an end by cancellation.
WorkerLive == wpc \notin {"none", "exited", "failed", "cancelled"}

\* while( wq->running ) (wq.c:34); leaving the loop returns NULL (wq.c:91).
WLoop ==
    /\ wpc = "loop"
    /\ wpc' = IF running THEN "trywait" ELSE "exited"
    /\ UNCHANGED << qvars, nodevars, work_itr, w_next, w_rc, cancelReq, pvars,
                    ovars, hvars >>

\* sem_trywait (wq.c:37-41): takes a unit if there is one, else EAGAIN.
WTryWait ==
    /\ wpc = "trywait"
    /\ IF work_sem > 0
       THEN work_sem' = work_sem - 1 /\ wpc' = "check"
       ELSE work_sem' = work_sem /\ wpc' = "wait"
    /\ UNCHANGED << inited, work, tail, running, work_lock, nodevars, work_itr,
                    w_next, w_rc, cancelReq, pvars, ovars, hvars >>

\* sem_trywait fails with an error other than EAGAIN: the worker logs and
\* leaves its loop (wq.c:46-51).
WTryWaitFatal ==
    /\ wpc = "trywait"
    /\ wpc' = "failed"
    /\ UNCHANGED << qvars, nodevars, work_itr, w_next, w_rc, cancelReq, pvars,
                    ovars, hvars >>

\* sem_wait returns with a unit taken (wq.c:44).
WWait ==
    /\ wpc = "wait"
    /\ ~cancelReq
    /\ work_sem > 0
    /\ work_sem' = work_sem - 1
    /\ wpc' = "check"
    /\ UNCHANGED << inited, work, tail, running, work_lock, nodevars, work_itr,
                    w_next, w_rc, cancelReq, pvars, ovars, hvars >>

\* if( !wq->running ) break (wq.c:55-57).
WCheck ==
    /\ wpc = "check"
    /\ wpc' = IF running THEN "lock" ELSE "exited"
    /\ UNCHANGED << qvars, nodevars, work_itr, w_next, w_rc, cancelReq, pvars,
                    ovars, hvars >>

\* Mutant of WLock: the worker goes on to the exchange of buffers without
\* taking the mutex.
WLock_NoLock ==
    /\ wpc = "lock"
    /\ wpc' = "detach"
    /\ UNCHANGED << qvars, nodevars, work_itr, w_next, w_rc, cancelReq, pvars,
                    ovars, hvars >>

\* pthread_mutex_lock (wq.c:60).
WLock ==
    /\ wpc = "lock"
    /\ work_lock = NoOne
    /\ work_lock' = Worker
    /\ wpc' = "detach"
    /\ UNCHANGED << inited, work, tail, running, work_sem, nodevars, work_itr,
                    w_next, w_rc, cancelReq, pvars, ovars, hvars >>

\* Mutant of Detach: the head is cleared but the tail pointer is left behind.
Detach_KeepTail == << work, NULL, tail >>

\* Mutant of Detach: the head is captured but the queue's head is not cleared.
Detach_KeepHead == << work, work, tail >>

\* The exchange of buffers (wq.c:62-64), as the new << work_itr, work, tail >>.
Detach == << work, NULL, NULL >>

\* Mutant of WDetach: the worker enters the batch loop without releasing the
\* mutex.
WDetach_KeepLock ==
    /\ wpc = "detach"
    /\ work_itr' = Detach[1]
    /\ work' = Detach[2]
    /\ tail' = Detach[3]
    /\ wpc' = IF Detach[1] # NULL THEN "call" ELSE "loop"
    /\ UNCHANGED << inited, running, work_sem, work_lock, nodevars, w_next,
                    w_rc, cancelReq, pvars, ovars, hvars >>

\* The worker detaches the whole chain, releases the lock and enters the
\* batch loop (wq.c:62-69); an empty batch goes back to wq.c:34.  The code
\* does not test who holds the mutex: that the worker does is a consequence
\* of wq.c:60 coming first.
WDetach ==
    /\ wpc = "detach"
    /\ work_itr' = Detach[1]
    /\ work' = Detach[2]
    /\ tail' = Detach[3]
    /\ work_lock' = NoOne
    /\ wpc' = IF Detach[1] # NULL THEN "call" ELSE "loop"
    /\ UNCHANGED << inited, running, work_sem, nodevars, w_next, w_rc,
                    cancelReq, pvars, ovars, hvars >>

\* The callback is invoked with the node and its payload (wq.c:72-73).
WCall ==
    /\ wpc = "call"
    /\ execLog' = Append(execLog, [node |-> work_itr,
                                   work |-> wreq[work_itr].work,
                                   data |-> wreq[work_itr].work_data])
    /\ wpc' = "incb"
    /\ UNCHANGED << qvars, nodevars, work_itr, w_next, w_rc, cancelReq, pvars,
                    ovars, owner, made, completed, relWorker, relDestroy,
                    abandoned, drain >>

\* The callback returns its status (wq.c:73).
WReturn ==
    /\ wpc = "incb"
    /\ w_rc' \in Statuses
    /\ completed' = completed \cup {work_itr}
    /\ wpc' = "free"
    /\ UNCHANGED << qvars, nodevars, work_itr, w_next, cancelReq, pvars, ovars,
                    owner, made, execLog, relWorker, relDestroy, abandoned,
                    drain >>

\* Mutant of WFree: a nonzero status makes the worker leave its loops without
\* releasing the node or running the rest of the batch.
WFree_BreakOnFailure ==
    /\ wpc = "free"
    /\ IF w_rc # 0
       THEN /\ wpc' = "exited"
            /\ UNCHANGED << nodevars, work_itr, w_next, relWorker >>
       ELSE /\ w_next' = wreq[work_itr].next
            /\ wreq' = [wreq EXCEPT ![work_itr] = eventfs_wreq_free]
            /\ mem' = [mem EXCEPT ![work_itr] = "freed"]
            /\ relWorker' = relWorker \cup {work_itr}
            /\ work_itr' = wreq[work_itr].next
            /\ wpc' = IF wreq[work_itr].next # NULL THEN "call" ELSE "loop"
    /\ UNCHANGED << qvars, w_rc, cancelReq, pvars, ovars, owner, made, execLog,
                    completed, relDestroy, abandoned, drain >>

\* Mutant of WFree: at the end of its batch the worker goes on with the
\* nodes of the pending chain, without detaching them.
WFree_ContinueIntoChain ==
    /\ wpc = "free"
    /\ w_next' = wreq[work_itr].next
    /\ wreq' = [wreq EXCEPT ![work_itr] = eventfs_wreq_free]
    /\ mem' = [mem EXCEPT ![work_itr] = "freed"]
    /\ relWorker' = relWorker \cup {work_itr}
    /\ work_itr' = IF wreq[work_itr].next # NULL THEN wreq[work_itr].next ELSE work
    /\ wpc' = IF work_itr' # NULL THEN "call" ELSE "loop"
    /\ UNCHANGED << qvars, w_rc, cancelReq, pvars, ovars, owner, made, execLog,
                    completed, relDestroy, abandoned, drain >>

\* After the callback: report a nonzero status, read the next link, zero and
\* release the node, advance and test the loop condition (wq.c:74-88, 69).
WFree ==
    /\ wpc = "free"
    /\ w_next' = wreq[work_itr].next
    /\ wreq' = [wreq EXCEPT ![work_itr] = eventfs_wreq_free]
    /\ mem' = [mem EXCEPT ![work_itr] = "freed"]
    /\ relWorker' = relWorker \cup {work_itr}
    /\ work_itr' = wreq[work_itr].next
    /\ wpc' = IF wreq[work_itr].next # NULL THEN "call" ELSE "loop"
    /\ UNCHANGED << qvars, w_rc, cancelReq, pvars, ovars, owner, made, execLog,
                    completed, relDestroy, abandoned, drain >>

\* A pending cancellation request is acted on in sem_wait (wq.c:44): the
\* thread ends there, whether or not a unit is available.
WCancelWait ==
    /\ wpc = "wait"
    /\ cancelReq
    /\ wpc' = "cancelled"
    /\ UNCHANGED << qvars, nodevars, work_itr, w_next, w_rc, cancelReq, pvars,
                    ovars, hvars >>

\* A pending cancellation request is acted on at a cancellation point inside
\* the batch loop: in the diagnostic output before the callback (wq.c:72),
\* inside the callback (wq.c:73), or in the output after it (wq.c:74-78).
\* The thread ends with the rest of its private batch neither executed nor
\* released.
WCancelBatch ==
    /\ wpc \in {"call", "incb", "free"}
    /\ cancelReq
    /\ wpc' = "cancelled"
    /\ abandoned' = abandoned \cup SeqSet(Chain(work_itr))
    /\ UNCHANGED << qvars, nodevars, work_itr, w_next, w_rc, cancelReq, pvars,
                    ovars, owner, made, execLog, completed, relWorker,
                    relDestroy, drain >>


\* ---- the owner thread: eventfs_wq_start, _stop, _free, _init ---------------

\* Every request the model allows has been constructed and its
\* eventfs_wq_add has returned.
AllSubmitted ==
    /\ \A n \in Nodes : mem[n] # "unused"
    /\ \A p \in Producers : ppc[p] = "idle"

\* The owner calls one lifecycle operation on an initialised queue.
\* eventfs_wq_free takes no lock and destroys the mutex and the semaphore:
\* doing so with a producer inside eventfs_wq_add is undefined, so the owner
\* tears a stopped queue down only with no producer inside eventfs_wq_add.
Call(op) ==
    /\ opc = "idle"
    /\ inited
    /\ op = "free" /\ ~running => \A p \in Producers : ppc[p] = "idle"
    /\ opc' = op
    /\ drain' = IF op # "stop" THEN drain
                ELSE IF drain = "open" /\ running /\ AllSubmitted THEN "yes"
                ELSE "no"
    /\ UNCHANGED << qvars, nodevars, wvars, pvars, ret, nstarts, ninits, owner,
                    made, execLog, completed, relWorker, relDestroy, abandoned >>

\* Mutant of StartRejected: eventfs_wq_start does not look at wq->running.
StartRejected_Never == FALSE

\* if( wq->running ) return -EINVAL (wq.c:130-132).
StartRejected == running

\* eventfs_wq_start on a running queue (wq.c:130-132).
StartMisuse ==
    /\ opc = "start"
    /\ StartRejected
    /\ opc' = "idle"
    /\ ret' = [op |-> "start", rc |-> 0 - EINVAL]
    /\ UNCHANGED << qvars, nodevars, wvars, pvars, nstarts, ninits, hvars >>

\* Mutant of StartSpawn: eventfs_wq_start also resets the semaphore to 0.
StartSpawn_ResetsSem ==
    /\ opc = "start"
    /\ ~StartRejected
    /\ nstarts < MaxStarts
    /\ running' = TRUE
    /\ work_sem' = 0
    /\ wpc' = "loop"
    /\ work_itr' = NULL
    /\ w_next' = NULL
    /\ w_rc' = 0
    /\ cancelReq' = FALSE
    /\ nstarts' = nstarts + 1
    /\ opc' = "idle"
    /\ ret' = [op |-> "start", rc |-> 0]
    /\ UNCHANGED << inited, work, tail, work_lock, nodevars, pvars, ninits,
                    hvars >>

\* eventfs_wq_start, pthread_create succeeding (wq.c:134-152): running is
\* set and a new thread enters eventfs_wq_main with its locals at NULL
\* (wq.c:29-32).
StartSpawn ==
    /\ opc = "start"
    /\ ~StartRejected
    /\ nstarts < MaxStarts
    /\ running' = TRUE
    /\ wpc' = "loop"
    /\ work_itr' = NULL
    /\ w_next' = NULL
    /\ w_rc' = 0
    /\ cancelReq' = FALSE
    /\ nstarts' = nstarts + 1
    /\ opc' = "idle"
    /\ ret' = [op |-> "start", rc |-> 0]
    /\ UNCHANGED << inited, work, tail, work_sem, work_lock, nodevars, pvars,
                    ninits, hvars >>

\* The value eventfs_wq_start returns when pthread_create fails with errno
\* at e (wq.c:146-149).
SpawnFailureCode(e) == 0 - e

\* eventfs_wq_start, pthread_create failing (wq.c:139-150): running is set,
\* then rolled back, and -errno is returned.  No thread reads running in
\* between (none exists).
StartSpawnFails ==
    /\ opc = "start"
    /\ ~StartRejected
    /\ running' = FALSE
    /\ opc' = "idle"
    /\ \E e \in Errnos : ret' = [op |-> "start", rc |-> SpawnFailureCode(e)]
    /\ UNCHANGED << inited, work, tail, work_sem, work_lock, nodevars, wvars,
                    pvars, nstarts, ninits, hvars >>

\* if( !wq->running ) return -EINVAL (wq.c:161-163).
StopRejected == ~running

\* eventfs_wq_stop on a queue that is not running (wq.c:161-163).
StopMisuse ==
    /\ opc = "stop"
    /\ StopRejected
    /\ opc' = "idle"
    /\ ret' = [op |-> "stop", rc |-> 0 - EINVAL]
    /\ UNCHANGED << qvars, nodevars, wvars, pvars, nstarts, ninits, hvars >>

\* eventfs_wq_stop clears running (wq.c:161-165).
StopBegin ==
    /\ opc = "stop"
    /\ ~StopRejected
    /\ running' = FALSE
    /\ opc' = "stop_post"
    /\ UNCHANGED << inited, work, tail, work_sem, work_lock, nodevars, wvars,
                    pvars, ret, nstarts, ninits, hvars >>

\* Mutant of StopPost: eventfs_wq_stop goes on to the cancellation without
\* posting the semaphore.
StopPost_NoPost ==
    /\ opc = "stop_post"
    /\ opc' = "stop_cancel"
    /\ UNCHANGED << qvars, nodevars, wvars, pvars, ret, nstarts, ninits, hvars >>

\* eventfs_wq_stop posts the semaphore to wake the worker (wq.c:168).
StopPost ==
    /\ opc = "stop_post"
    /\ work_sem' = work_sem + 1
    /\ opc' = "stop_cancel"
    /\ UNCHANGED << inited, work, tail, running, work_lock, nodevars, wvars,
                    pvars, ret, nstarts, ninits, hvars >>

\* eventfs_wq_stop requests cancellation of the worker (wq.c:169); a thread
\* that has already ended is not affected.
StopCancel ==
    /\ opc = "stop_cancel"
    /\ cancelReq' = WorkerLive
    /\ opc' = "stop_join"
    /\ UNCHANGED << qvars, nodevars, wpc, work_itr, w_next, w_rc, pvars, ret,
                    nstarts, ninits, hvars >>

\* Mutant of Joinable: the join only returns for a thread that was cancelled,
\* not for one that returned from eventfs_wq_main by itself.
Joinable_OnlyCancelled == wpc = "cancelled"

\* What pthread_join waits for (wq.c:171): the thread has ended.
Joinable == wpc \in {"exited", "failed", "cancelled"}

\* Mutant of StopJoin: eventfs_wq_stop returns without joining the thread.
StopJoin_NoJoin ==
    /\ opc = "stop_join"
    /\ opc' = "idle"
    /\ ret' = [op |-> "stop", rc |-> 0]
    /\ UNCHANGED << qvars, nodevars, wvars, pvars, nstarts, ninits, hvars >>

\* pthread_join returns once the worker has ended; eventfs_wq_stop returns 0
\* (wq.c:171-173).
StopJoin ==
    /\ opc = "stop_join"
    /\ Joinable
    /\ wpc' = "none"
    /\ cancelReq' = FALSE
    /\ opc' = "idle"
    /\ ret' = [op |-> "stop", rc |-> 0]
    /\ UNCHANGED << qvars, nodevars, work_itr, w_next, w_rc, pvars, nstarts,
                    ninits, hvars >>

\* if( wq->running ) return -EINVAL (wq.c:201-203).
FreeRejected == running

\* eventfs_wq_free on a running queue (wq.c:201-203).
FreeMisuse ==
    /\ opc = "free"
    /\ FreeRejected
    /\ opc' = "idle"
    /\ ret' = [op |-> "free", rc |-> 0 - EINVAL]
    /\ UNCHANGED << qvars, nodevars, wvars, pvars, nstarts, ninits, hvars >>

\* Mutant of eventfs_wq_queue_free: only the first node is released.
eventfs_wq_queue_free_HeadOnly(wqueue) ==
    IF wqueue = NULL THEN {} ELSE {wqueue}

\* eventfs_wq_queue_free (wq.c:178-193): the nodes it walks and releases.
eventfs_wq_queue_free(wqueue) == SeqSet(Chain(wqueue))

\* Mutant of Free: eventfs_wq_free releases the nodes and destroys the mutex
\* and the semaphore but does not zero the structure.
Free_NoMemset ==
    /\ opc = "free"
    /\ ~FreeRejected
    /\ LET gone == eventfs_wq_queue_free(work) IN
         /\ wreq' = [n \in Nodes |-> IF n \in gone THEN eventfs_wreq_free ELSE wreq[n]]
         /\ mem' = [n \in Nodes |-> IF n \in gone THEN "freed" ELSE mem[n]]
         /\ relDestroy' = relDestroy \cup gone
    /\ inited' = FALSE
    /\ opc' = "idle"
    /\ ret' = [op |-> "free", rc |-> 0]
    /\ UNCHANGED << work, tail, running, work_sem, work_lock, wvars, pvars,
                    nstarts, ninits, owner, made, execLog, completed,
                    relWorker, abandoned, drain >>

\* eventfs_wq_free on a queue that is not running (wq.c:205-213): every node
\* of the chain is zeroed and released without its callback being called,
\* the mutex and the semaphore are destroyed, the structure is zeroed.
Free ==
    /\ opc = "free"
    /\ ~FreeRejected
    /\ LET gone == eventfs_wq_queue_free(work) IN
         /\ wreq' = [n \in Nodes |-> IF n \in gone THEN eventfs_wreq_free ELSE wreq[n]]
         /\ mem' = [n \in Nodes |-> IF n \in gone THEN "freed" ELSE mem[n]]
         /\ relDestroy' = relDestroy \cup gone
    /\ work' = NULL
    /\ tail' = NULL
    /\ running' = FALSE
    /\ work_sem' = 0
    /\ work_lock' = NoOne
    /\ inited' = FALSE
    /\ opc' = "idle"
    /\ ret' = [op |-> "free", rc |-> 0]
    /\ UNCHANGED << wvars, pvars, nstarts, ninits, owner, made, execLog,
                    completed, relWorker, abandoned, drain >>

\* The owner calls eventfs_wq_init on a structure eventfs_wq_free has zeroed.
CallInit ==
    /\ opc = "idle"
    /\ ~inited
    /\ ninits < MaxInits
    /\ opc' = "init"
    /\ UNCHANGED << qvars, nodevars, wvars, pvars, ret, nstarts, ninits, hvars >>

\* eventfs_wq_init (wq.c:105-120): the structure zeroed, a fresh mutex, the
\* semaphore at 0.
WqInit ==
    /\ opc = "init"
    /\ work' = NULL
    /\ tail' = NULL
    /\ running' = FALSE
    /\ work_sem' = 0
    /\ work_lock' = NoOne
    /\ inited' = TRUE
    /\ ninits' = ninits + 1
    /\ opc' = "idle"
    /\ ret' = [op |-> "init", rc |-> 0]
    /\ UNCHANGED << nodevars, wvars, pvars, nstarts, hvars >>

\* ---- specifications -------------------------------------------------------

ProducerStep ==
    \E p \in Producers :
        \/ AddLock(p)
        \/ AddAppend(p)
        \/ AddPost(p)

WorkerStep ==
    \/ WLoop
    \/ WTryWait
    \/ WTryWaitFatal
    \/ WWait
    \/ WCheck
    \/ WLock
    \/ WDetach
    \/ WCall
    \/ WReturn
    \/ WFree
    \/ WCancelWait
    \/ WCancelBatch

OwnerStep ==
    \/ \E op \in {"start", "stop", "free"} : Call(op)
    \/ StartMisuse
    \/ StartSpawn
    \/ StartSpawnFails
    \/ StopMisuse
    \/ StopBegin
    \/ StopPost
    \/ StopCancel
    \/ StopJoin
    \/ FreeMisuse
    \/ Free
    \/ CallInit
    \/ WqInit

Next == ProducerStep \/ WorkerStep \/ OwnerStep

Spec == Init /\ [][Next]_vars

\* A queue that is started and never stopped, on a valid semaphore
\* (sem_trywait fails with EAGAIN only), under fair scheduling: the worker
\* thread keeps taking steps while it is not blocked, every callback returns,
\* and a producer inside eventfs_wq_add gets to finish the call.
WorkerRuns ==
    \/ WLoop
    \/ WTryWait
    \/ WWait
    \/ WCheck
    \/ WLock
    \/ WDetach
    \/ WCall
    \/ WReturn
    \/ WFree

StartOnly ==
    \/ Call("start")
    \/ StartMisuse
    \/ StartSpawn
    \/ StartSpawnFails

NextLive == ProducerStep \/ WorkerRuns \/ StartOnly

\* The whole program under fair scheduling: the worker thread keeps taking
\* steps while it is not blocked and every callback returns; a cancellation
\* request pending while the worker is in sem_wait is acted on (sem_wait is a
\* cancellation point); the owner finishes a stop it has begun; a producer
\* inside eventfs_wq_add finishes the call.  Whether a pending cancellation
\* takes effect inside the batch loop, and whether sem_trywait fails, is
\* left open.
FairSpec ==
    /\ Init
    /\ [][Next]_vars
    /\ WF_vars(WorkerRuns \/ WCancelWait)
    /\ WF_vars(StopBegin \/ StopPost \/ StopCancel \/ StopJoin)
    /\ \A p \in Producers : WF_vars(AddAppend(p) \/ AddPost(p))

\* The whole program with no assumption on the worker or the owner: the
\* worker may stop taking steps anywhere, in particular inside a callback
\* that never returns.  Only the producers are fairly scheduled: one that can
\* call eventfs_wq_add does, and one inside it finishes the call unless it
\* stays blocked.
StallSpec ==
    /\ Init
    /\ [][Next]_vars
    /\ \A p \in Producers : WF_vars(AddLock(p) \/ AddAppend(p) \/ AddPost(p))

LiveSpec ==
    /\ Init
    /\ [][NextLive]_vars
    /\ WF_vars(WorkerRuns)
    /\ \A p \in Producers : WF_vars(AddAppend(p) \/ AddPost(p))


\* ---- observations used by the properties -----------------------------------

\* The nodes whose callback has been invoked, in order of invocation.
Invoked == [i \in 1..Len(execLog) |-> execLog[i].node]

\* How many times node n's callback was invoked.
TimesInvoked(n) == Cardinality({ i \in 1..Len(execLog) : execLog[i].node = n })

\* The pending chain, as a sequence of nodes.
Pending == Chain(work)

\* Node n has been handed to the queue by an eventfs_wq_add that returned.
Enqueued(n) == mem[n] # "unused" /\ \A p \in Producers : pnode[p] # n

\* ---- C1 ---------------------------------------------------------------------
\* C1: callbacks of one producer's requests are invoked in the order the
\* producer submitted them (a producer's later request is a later node), within
\* a batch and across batches; and when a callback is invoked, every callback
\* invoked before it has returned (or its thread was cancelled): two callbacks
\* never overlap.
C1_FifoPerProducer ==
    /\ \A i, j \in 1..Len(execLog) :
          (i < j /\ owner[execLog[i].node] = owner[execLog[j].node])
             => execLog[i].node < execLog[j].node
    /\ \A i \in 1..Len(execLog) :
          i < Len(execLog) => execLog[i].node \in completed \cup abandoned

\* Two requests of the same producer have both been executed to completion.
C1_Witness ==
    /\ Len(execLog) = 2
    /\ owner[execLog[1].node] = owner[execLog[2].node]
    /\ {execLog[1].node, execLog[2].node} \subseteq completed

\* ---- C2 ---------------------------------------------------------------------
\* C2: no request's callback is invoked more than once, and a request whose
\* callback has been invoked is never on the pending chain again, in every
\* interleaving of producers, worker, start, stop, destroy and restart.
C2_AtMostOnce ==
    /\ \A n \in Nodes : TimesInvoked(n) <= 1
    /\ \A i \in 1..Len(execLog) : execLog[i].node \notin SeqSet(Pending)

\* A second worker (after stop and a second start) is executing a request
\* after the first worker executed another one.
C2_Witness ==
    /\ nstarts = 2
    /\ Len(execLog) = 2
    /\ wpc = "incb"
    /\ execLog[1].node \in relWorker


\* eventfs_wq_stop has returned 0 in the scenario "enqueue everything on a
\* started queue, then stop", and nothing has been called since.
StopReturnedAfterAll == drain = "yes" /\ opc = "idle" /\ ret = [op |-> "stop", rc |-> 0]

\* eventfs_wq_free has returned 0 after that stop.
FreeReturnedAfterAll == drain = "yes" /\ opc = "idle" /\ ret = [op |-> "free", rc |-> 0]

\* All requests were submitted by one producer.
SingleProducer == \A n, k \in Nodes : owner[n] = owner[k]

\* ---- C3 ---------------------------------------------------------------------
\* C3: after a single producer's enqueue calls on a started queue, then
\* stop (then destroy), every request was either executed to completion
\* exactly once and released by the worker, or never started and still on the
\* pending chain (after destroy: released by destroy).  None is left begun
\* but unfinished, none is left outside both the chain and a live worker.
C3_ExecutedOnceOrDiscarded ==
    (SingleProducer /\ (StopReturnedAfterAll \/ FreeReturnedAfterAll)) =>
        \A n \in Nodes :
            \/ TimesInvoked(n) = 1 /\ n \in completed /\ n \in relWorker
            \/ /\ TimesInvoked(n) = 0
               /\ IF ret.op = "stop" THEN n \in SeqSet(Pending) ELSE n \in relDestroy

\* ---- C4 ---------------------------------------------------------------------
\* C4 as stated: when stop is called after all enqueue calls on the started
\* queue have returned, then when stop returns every callback has been
\* executed exactly once (the counter equals the number of requests).
C4_DrainAndCount ==
    StopReturnedAfterAll =>
        \A n \in Nodes : TimesInvoked(n) = 1 /\ n \in completed

\* C4 as amended: in that scenario, when stop returns every callback has been
\* invoked at most once, the counter is at most the number of requests, and
\* each request is in exactly one of these places: executed to completion,
\* still on the pending chain and never invoked, or left in the batch of the
\* worker that stop cancelled.
C4_CountedAtMostOnce ==
    StopReturnedAfterAll =>
        /\ \A n \in Nodes : TimesInvoked(n) <= 1
        /\ completed \subseteq SeqSet(Invoked)
        /\ Cardinality(completed) <= MaxReq
        /\ \A n \in Nodes :
              \/ n \in completed /\ n \notin SeqSet(Pending)
              \/ n \in SeqSet(Pending) /\ TimesInvoked(n) = 0 /\ n \notin abandoned
              \/ n \in abandoned /\ n \notin completed /\ n \notin SeqSet(Pending)

\* Stop has returned in that scenario with one request executed and another
\* still pending.
C4_Witness ==
    /\ StopReturnedAfterAll
    /\ completed # {}
    /\ Pending # << >>


\* ---- C5 ---------------------------------------------------------------------
\* Node n's callback was invoked exactly once, with the callback and the
\* payload the request was constructed with, and has returned.
RanOnceAsMade(n) ==
    /\ n \in completed
    /\ TimesInvoked(n) = 1
    /\ \A i \in 1..Len(execLog) :
          execLog[i].node = n =>
             /\ execLog[i].work = made[n].work
             /\ execLog[i].data = made[n].work_data

\* C5: on a started queue that is never stopped, with terminating callbacks
\* and a fairly scheduled worker, every request whose enqueue has returned is
\* eventually executed, exactly once, with exactly the callback and payload
\* it was constructed with, and stays so.
C5_EnqueuedIsExecuted ==
    \A n \in Nodes : (running /\ Enqueued(n)) ~> [] RanOnceAsMade(n)

\* A request enqueued on the running queue has been executed as constructed,
\* by a worker that went to sleep at least once (a later batch).
C5_Witness ==
    /\ running
    /\ Len(execLog) = 2
    /\ \A n \in Nodes : RanOnceAsMade(n)
    /\ made[1] # made[2]
    /\ w_rc # 0
    /\ wpc = "wait"


\* ---- C6 ---------------------------------------------------------------------
\* The owner is inside a lifecycle call that the running flag makes a misuse.
MisuseCall ==
    \/ opc = "start" /\ running
    \/ opc = "stop" /\ ~running
    \/ opc = "free" /\ running

\* C6: start on a running queue, stop on a queue that is not running and
\* destroy on a running queue each return an error and leave the running
\* flag, the pending chain and its nodes, the semaphore count and the worker
\* threads (none spawned, none ended) unchanged; the queue stays initialised.
C6_MisuseChangesNothing ==
    [][ (MisuseCall /\ opc' # opc) =>
           /\ opc' = "idle"
           /\ ret'.op = opc
           /\ ret'.rc < 0
           /\ UNCHANGED << inited, running, work, tail, work_sem, work_lock,
                           wreq, mem, wpc, work_itr, cancelReq, nstarts >> ]_vars

\* A destroy on a running queue was rejected while a request was pending and
\* the worker was inside a callback.
C6_Witness ==
    /\ opc = "idle"
    /\ ret = [op |-> "free", rc |-> 0 - EINVAL]
    /\ running
    /\ inited
    /\ Pending # << >>
    /\ wpc = "incb"

\* ---- C7 ---------------------------------------------------------------------
\* C7: after a callback returned a nonzero status the worker, unless it is
\* cancelled, releases that node, does not put it back on the chain, and
\* goes on with the next node of the batch (or, at the end of the batch, with
\* its loop): exactly what it does after a zero status.
C7_FailureIsNotFatal ==
    [][ (wpc = "free" /\ w_rc # 0 /\ wpc' # "free" /\ wpc' # "cancelled") =>
           /\ mem'[work_itr] = "freed"
           /\ work_itr \in relWorker'
           /\ work_itr' = wreq[work_itr].next
           /\ wpc' = (IF wreq[work_itr].next # NULL THEN "call" ELSE "loop")
           /\ work' = work /\ tail' = tail
           /\ execLog' = execLog ]_vars

\* The first request of a batch of two returned a nonzero status (rc still
\* holds it) and was released, and the second request's callback is running
\* (one semaphore unit was consumed for the two requests: they are in the
\* same batch).
C7_Witness ==
    /\ Len(execLog) = 2
    /\ w_rc # 0
    /\ execLog[1].node \in relWorker
    /\ wpc = "incb"
    /\ nstarts = 1 /\ running /\ opc = "idle"
    /\ work_sem = 1

\* ---- C8 ---------------------------------------------------------------------
\* C8: eventfs_wq_free on a queue that is not running releases every request
\* of the pending chain without invoking its callback and leaves the queue
\* zeroed; a request released by destroy is never invoked, is on no chain and
\* in no batch; after destroy no enqueued request is left unreleased on the
\* chain.
C8_DestroyDiscards ==
    /\ \A n \in relDestroy :
          /\ TimesInvoked(n) = 0
          /\ mem[n] = "freed"
          /\ n \notin SeqSet(Pending)
          /\ n \notin SeqSet(Chain(work_itr))
    /\ ~inited =>
          /\ work = NULL /\ tail = NULL /\ ~running /\ work_sem = 0
          /\ \A n \in Nodes :
                Enqueued(n) => n \in relDestroy \cup SeqSet(Invoked) \cup abandoned

\* Destroy released two pending requests; the queue was then initialised and
\* started again, and its worker sleeps without having executed anything.
C8_Witness ==
    /\ relDestroy = Nodes
    /\ ninits = 1
    /\ wpc = "wait"
    /\ execLog = << >>

\* ---- C9 ---------------------------------------------------------------------
\* No call of eventfs_wq_stop is in progress.
NotInStop == opc \notin {"stop_post", "stop_cancel", "stop_join"}

\* C9: whenever the running flag is false and no stop is in progress (from
\* the return of a successful stop until the next successful start) there is
\* no worker thread; and while there is none, no callback is invoked or
\* completes and no node is released by a worker.
C9_StopIsBarrier ==
    /\ [] ((~running /\ NotInStop) => wpc = "none")
    /\ [][ wpc = "none" =>
             /\ execLog' = execLog
             /\ completed' = completed
             /\ relWorker' = relWorker
             /\ (wpc' = "none" => work_itr' = work_itr) ]_vars

\* A successful stop has returned while the worker had been inside a batch.
C9_Witness ==
    /\ opc = "idle"
    /\ ret = [op |-> "stop", rc |-> 0]
    /\ ~running
    /\ wpc = "none"
    /\ Len(execLog) = 1
    /\ Pending # << >>


\* ---- C10 --------------------------------------------------------------------
\* eventfs_wq_stop has returned 0 and nothing has been called since.
StopReturned == opc = "idle" /\ ret = [op |-> "stop", rc |-> 0]

\* C10: with terminating callbacks and fair scheduling, a stop called on a
\* running queue eventually returns 0, wherever the worker is (not yet in its
\* loop, blocked in its wait, between wait and detach, inside a batch, or
\* already ended by itself); when it has returned the queue is not running
\* and has no thread, and a destroy that follows returns 0.
C10_StopReturns ==
    /\ (opc = "stop" /\ running) ~> StopReturned
    /\ [] (StopReturned => (~running /\ wpc = "none"))
    /\ [][ (opc = "free" /\ ~running /\ opc' # opc) =>
              (ret' = [op |-> "free", rc |-> 0] /\ ~inited') ]_vars

\* Stop is waiting in pthread_join for a worker that had ended by itself on
\* a fatal sem_trywait error; a request is still pending.
C10_Witness ==
    /\ opc = "stop_join"
    /\ wpc = "failed"
    /\ ~running
    /\ Pending # << >>

\* ---- C11 --------------------------------------------------------------------
\* The queue structure as memset leaves it: no chain, not running, and (once
\* re-initialised) an unlocked mutex and a semaphore at 0.
QueueZeroed ==
    /\ work = NULL /\ tail = NULL
    /\ ~running
    /\ work_sem = 0
    /\ work_lock = NoOne

\* The state eventfs_wq_init produces: an initialised, zeroed queue with no
\* worker thread, no cancellation pending and no call in progress.
FreshQueue ==
    /\ inited
    /\ QueueZeroed
    /\ wpc = "none" /\ ~cancelReq
    /\ opc = "idle"
    /\ \A p \in Producers : ppc[p] = "idle" /\ pnode[p] = NULL

\* C11: a stop on a running queue and a destroy on a stopped queue return 0,
\* and destroy leaves the structure zeroed with no worker thread; an init
\* that follows returns 0 and produces the state the first init produced
\* (running false, empty chain, semaphore at 0, mutex unlocked, no thread:
\* the state the queue is in after either init until a request is
\* submitted), so that start, enqueue and execution go on from the same
\* state as on a fresh queue; requests on the chain of the re-initialised
\* queue are live ones, never invoked, released or abandoned before.
C11_ReuseAfterShutdown ==
    /\ [] ((ret.op = "init" /\ opc = "idle" /\ \A n \in Nodes : mem[n] = "unused")
              => FreshQueue)
    /\ [] (~inited => (QueueZeroed /\ wpc = "none" /\ ~cancelReq))
    /\ [][ (opc \in {"stop_join", "free"} /\ ~running /\ opc' # opc) =>
              ret'.rc = 0 ]_vars
    /\ [][ (opc = "init" /\ opc' # opc) =>
              (ret' = [op |-> "init", rc |-> 0] /\ FreshQueue') ]_vars
    /\ [] (\A n \in SeqSet(Pending) :
              /\ mem[n] = "live"
              /\ n \notin relDestroy \cup relWorker \cup abandoned
              /\ TimesInvoked(n) = 0)

\* After init, start, stop and destroy with nothing ever enqueued, the queue
\* was initialised and started again, and its worker is executing the first
\* request ever submitted.
C11_Witness ==
    /\ ninits = 1 /\ nstarts = 2 /\ running
    /\ wpc = "incb" /\ work_itr = 1
    /\ Len(execLog) = 1
    /\ relDestroy = {} /\ abandoned = {}

\* ---- C12 --------------------------------------------------------------------
\* C12: when eventfs_wq_start is called on a queue that is not running and
\* pthread_create fails (the call returns with running still false), the
\* value returned is negative, running is false and there is no worker
\* thread, before and after.
C12_SpawnFailureIsAnError ==
    [][ (opc = "start" /\ ~running /\ opc' # opc /\ ~running') =>
           /\ ret'.op = "start"
           /\ ret'.rc < 0
           /\ wpc = "none" /\ wpc' = "none" ]_vars

\* ---- C13 --------------------------------------------------------------------
\* C13: once stop has returned (the queue is not running and no stop is in
\* progress), every request whose enqueue has returned had one of two fates:
\* the worker detached it, executed it to completion exactly once and
\* released it; or the worker never detached it: it was never invoked and is
\* on the pending chain, or destroy has released it from there.
C13_ExecutedOrLeftPending ==
    (~running /\ NotInStop) =>
        \A n \in Nodes :
            Enqueued(n) =>
                \/ /\ TimesInvoked(n) = 1
                   /\ n \in completed
                   /\ n \in relWorker
                   /\ n \notin SeqSet(Pending)
                \/ /\ TimesInvoked(n) = 0
                   /\ n \in SeqSet(Pending)
                   /\ mem[n] = "live"
                \/ /\ TimesInvoked(n) = 0
                   /\ n \in relDestroy
                   /\ n \notin SeqSet(Pending)

\* ---- C14 --------------------------------------------------------------------
\* How many times node n occurs in the sequence s.
Count(s, n) == Cardinality({ i \in 1..Len(s) : s[i] = n })

\* The worker's privately detached batch: the nodes from work_itr on, while
\* the worker is inside its batch loop.
Batch == IF wpc \in {"call", "incb", "free"} THEN Chain(work_itr) ELSE << >>

\* Node n has been linked into the chain by eventfs_wq_add: the call has
\* returned or has released the lock and is about to post.
Appended(n) ==
    /\ mem[n] # "unused"
    /\ \A p \in Producers : pnode[p] = n => ppc[p] = "post"

\* C14: with any producers appending concurrently with each other and with
\* the worker's detach, every request that eventfs_wq_add has linked in (and
\* that neither destroy nor a cancellation of the worker has taken away) is
\* in exactly one place: once on the pending chain, once in the worker's
\* detached batch, or executed and released by the worker; and nothing else
\* is on the chain or in the batch.
C14_NoLossNoDuplication ==
    /\ \A n \in Nodes :
          (Appended(n) /\ n \notin relDestroy \cup abandoned) =>
              \/ /\ Count(Pending, n) = 1 /\ Count(Batch, n) = 0
                 /\ n \notin relWorker /\ mem[n] = "live"
              \/ /\ Count(Pending, n) = 0 /\ Count(Batch, n) = 1
                 /\ n \notin relWorker /\ mem[n] = "live"
              \/ /\ Count(Pending, n) = 0 /\ Count(Batch, n) = 0
                 /\ n \in relWorker /\ n \in completed /\ mem[n] = "freed"
    /\ \A n \in SeqSet(Pending) \cup SeqSet(Batch) : Appended(n)

\* The worker is executing the batch made of producer A's request while
\* producer B, having appended its request to the chain the worker emptied,
\* is about to post.
C14_Witness ==
    /\ wpc = "incb" /\ work_itr = 1
    /\ Pending = << 2 >>
    /\ owner[1] # owner[2]
    /\ ppc[owner[2]] = "post"
    /\ running /\ nstarts = 1 /\ opc = "idle"

\* ---- C15 --------------------------------------------------------------------
\* C15: whenever the mutex is not held, wq->work is NULL exactly when
\* wq->tail is NULL, and when the chain is not empty wq->tail is the last
\* node reachable from wq->work and its next link is NULL; the chain is
\* acyclic (no node occurs twice).
C15_HeadTailAgree ==
    work_lock = NoOne =>
        /\ (work = NULL) <=> (tail = NULL)
        /\ work # NULL =>
              /\ tail = Pending[Len(Pending)]
              /\ wreq[tail].next = NULL
              /\ \A n \in SeqSet(Pending) : Count(Pending, n) = 1

\* The mutex is free, the worker is executing the batch it detached
\* (request 1), and request 2, appended to the emptied chain since, is both
\* head and tail.
C15_Witness ==
    /\ work_lock = NoOne
    /\ wpc = "incb" /\ work_itr = 1
    /\ work = 2 /\ tail = 2
    /\ \A p \in Producers : ppc[p] = "idle"

\* ---- C16 --------------------------------------------------------------------
\* This step writes the pending chain: wq->work, wq->tail, or the memory of a
\* node that is on the chain.
ChainWrite ==
    \/ work' # work
    \/ tail' # tail
    \/ \E n \in SeqSet(Pending) : wreq'[n] # wreq[n]

\* This step is taken by a thread that holds the mutex: a producer inside
\* eventfs_wq_add or the worker.
StepOfLockHolder ==
    \/ \E p \in Producers : ppc'[p] # ppc[p] /\ work_lock = Producer(p)
    \/ wpc' # wpc /\ opc' = opc /\ work_lock = Worker

\* This step writes the memory of a live node without its thread holding the
\* mutex only if the node is in the worker's detached batch or is being
\* constructed (not yet handed to eventfs_wq_add's critical section).
UnlockedNodeWritesArePrivate ==
    \A n \in Nodes :
        (wreq'[n] # wreq[n] /\ ~StepOfLockHolder) =>
            \/ n \in SeqSet(Batch)
            \/ mem[n] = "unused"

\* C16 as stated: on an initialised queue every step that writes the pending
\* chain is taken by a thread holding the mutex, whichever operation it
\* belongs to (enqueue, detach, destroy), and the only nodes written without
\* the mutex are in the worker's detached batch.
C16_ChainWritesUnderLock ==
    [][ inited => /\ (ChainWrite => StepOfLockHolder)
                  /\ UnlockedNodeWritesArePrivate ]_vars

\* This step is eventfs_wq_free going ahead, on a queue that is not running
\* and has no worker thread.
StepOfDestroy == opc = "free" /\ opc' # opc /\ ~running /\ wpc = "none"

\* C16 as amended: every write to the pending chain by enqueue and by the
\* worker's detach is made by a thread holding the mutex, and the worker
\* writes without the mutex only nodes of its detached batch; destroy, which
\* goes ahead only on a queue that is not running and has no worker thread,
\* writes head, tail and the nodes of the chain without taking the mutex.
C16_ChainWritesUnderLockOrDestroy ==
    [][ (inited /\ ~StepOfDestroy) =>
            /\ (ChainWrite => StepOfLockHolder)
            /\ UnlockedNodeWritesArePrivate ]_vars

\* The worker has detached, executed and released one request, and destroy
\* has released the other from the pending chain.
C16_Witness ==
    /\ relWorker # {}
    /\ relDestroy # {}
    /\ ~inited
    /\ ret = [op |-> "free", rc |-> 0]

\* ---- C17 --------------------------------------------------------------------
\* C17: the worker holds the mutex only between pthread_mutex_lock and
\* pthread_mutex_unlock around the exchange of buffers: never while a
\* callback is executing, while it is in the batch loop, or while it is in
\* its wait step.  Hence, with producers fairly scheduled and no assumption
\* that a callback returns, from any state in which a callback is running
\* either the callback returns (or its thread is cancelled) or every
\* enqueue call the producers make completes: none waits for the callback.
C17_NoLockDuringCallback ==
    /\ [] (work_lock = Worker => wpc = "detach")
    /\ [] (wpc \in {"wait", "call", "incb", "free"} => work_lock # Worker)
    /\ (wpc = "incb") ~> (wpc # "incb" \/ AllSubmitted)

\* A producer is inside the critical section of eventfs_wq_add while the
\* callback of the request the worker detached is executing.
C17_Witness ==
    /\ wpc = "incb" /\ work_itr = 1
    /\ work_lock = Producer(2)
    /\ ppc[2] = "append"
    /\ Pending = << >>

\* ---- C18 --------------------------------------------------------------------
\* The worker is inside a pass: it has detached a non-empty batch and has not
\* finished it.
InPass == wpc \in {"call", "incb", "free"}

\* C18: during a pass the batch and the pending chain are disjoint, every
\* request of the pending chain was enqueued after every request of the batch
\* (node numbers follow the order of lock acquisition) and has not been
\* invoked; the batch changes only by losing its first node, whatever the
\* producers append meanwhile; no request has been invoked ahead of a node
\* that is still in the batch; and, with fair scheduling and terminating
\* callbacks, a request that is on the pending chain during a pass is
\* eventually executed exactly once as constructed, unless the queue is
\* stopped or the worker dies on a fatal wait error.
C18_DeferredToLaterPass ==
    /\ [] (InPass =>
             \A m \in SeqSet(Batch) : \A n \in SeqSet(Pending) :
                 m < n /\ TimesInvoked(n) = 0 /\ mem[n] = "live")
    /\ [][ (InPass /\ InPass') =>
              (Batch' = Batch \/ Batch' = Tail(Batch)) ]_vars
    /\ [] (\A m \in SeqSet(Batch) : \A i \in 1..Len(execLog) :
             execLog[i].node <= m)
    /\ \A n \in Nodes :
          (InPass /\ running /\ n \in SeqSet(Pending))
             ~> (RanOnceAsMade(n) \/ ~running \/ wpc = "failed")

\* The worker is executing request 2 in a second pass: both enqueue calls
\* have returned, the queue was never stopped, and both semaphore units were
\* consumed, one by the pass that executed and released request 1.
C18_Witness ==
    /\ wpc = "incb" /\ work_itr = 2
    /\ 1 \in relWorker
    /\ work_sem = 0
    /\ running /\ nstarts = 1 /\ opc = "idle"
    /\ \A p \in Producers : ppc[p] = "idle"

\* ---- C19 --------------------------------------------------------------------
\* A producer has released the mutex and has not yet posted (wq.c:253-257).
PostOwed == \E p \in Producers : ppc[p] = "post"

\* The worker has taken a semaphore unit and has not yet detached
\* (wq.c:37-62).
UnitInHand == wpc \in {"check", "lock", "detach"}

\* C19 as stated: on an initialised queue, whenever the pending chain is not
\* empty the semaphore count is at least 1, or a producer is between unlock
\* and post, or the worker has taken a unit and not yet detached; and the
\* worker is never in sem_wait with the count at 0 while a request whose
\* enqueue has returned is pending.
C19_NoLostWakeup ==
    /\ (inited /\ Pending # << >>) =>
           (work_sem >= 1 \/ PostOwed \/ UnitInHand)
    /\ ~ (wpc = "wait" /\ work_sem = 0 /\ \E n \in SeqSet(Pending) : Enqueued(n))

\* eventfs_wq_stop has cleared running and has not yet posted the semaphore
\* (wq.c:165-168): a worker that had a unit in hand may have dropped it at
\* its running test (wq.c:55-57).
StopPostOwed == opc = "stop_post"

\* C19 as amended: on an initialised queue, whenever the pending chain is not
\* empty the semaphore count is at least 1, or a producer is between unlock
\* and post, or the worker has taken a unit and not yet detached, or
\* eventfs_wq_stop is between clearing running and its own post; and the
\* worker is never in sem_wait with the count at 0 while a request whose
\* enqueue has returned is pending.
C19_NoLostWakeupButInStop ==
    /\ (inited /\ Pending # << >>) =>
           (work_sem >= 1 \/ PostOwed \/ UnitInHand \/ StopPostOwed)
    /\ ~ (wpc = "wait" /\ work_sem = 0 /\ \E n \in SeqSet(Pending) : Enqueued(n))

\* A request is pending with the count at 0, no post owed by a producer and
\* no unit in the worker's hand: the worker took the unit, read running as
\* false and returned, and eventfs_wq_stop is about to post.
C19_Witness ==
    /\ inited /\ Pending # << >>
    /\ \A n \in SeqSet(Pending) : Enqueued(n)
    /\ work_sem = 0 /\ ~PostOwed /\ ~UnitInHand
    /\ StopPostOwed
    /\ wpc = "exited"

\* ---- C20 --------------------------------------------------------------------
\* The sequence s is an initial part of the sequence t.
IsPrefix(s, t) == Len(s) <= Len(t) /\ \A i \in 1..Len(s) : s[i] = t[i]

\* The queue is initialised and stopped: not running, no stop in progress.
Stopped == inited /\ ~running /\ NotInStop

\* What holds of pending work across stop and restart whatever the semaphore
\* count: while the queue is stopped no callback is invoked and the pending
\* chain only grows at its end (until a destroy); the chain is in order of
\* enqueue and callbacks are invoked in that order, each at most once; and,
\* with fair scheduling and terminating callbacks, every request that is on
\* the pending chain of a queue that was started again is eventually executed
\* exactly once as constructed, unless the queue is stopped again or the
\* worker dies on a fatal wait error.
PendingSurvivesRestart ==
    /\ [][ (Stopped /\ inited') =>
              (IsPrefix(Pending, Pending') /\ execLog' = execLog) ]_vars
    /\ [] (\A i, j \in 1..Len(Pending) : i < j => Pending[i] < Pending[j])
    /\ [] (\A i, j \in 1..Len(execLog) :
              i < j => execLog[i].node < execLog[j].node)
    /\ \A n \in Nodes :
          (running /\ nstarts >= 2 /\ n \in SeqSet(Pending))
             ~> (RanOnceAsMade(n) \/ ~running \/ wpc = "failed")

\* C20 as stated: pending requests survive stop and restart as above, and
\* whenever the queue is stopped with a non-empty pending chain the
\* semaphore count is at least 1.
C20_PendingSurvivesWithSignal ==
    /\ [] ((Stopped /\ Pending # << >>) => work_sem >= 1)
    /\ PendingSurvivesRestart

\* C20 as amended: pending requests survive stop and restart as above, and
\* whenever the queue is stopped with a non-empty pending chain the
\* semaphore count is at least 1 or a producer that has appended its request
\* is about to post; the count is at least 1 as soon as a request whose
\* enqueue has returned is pending.
C20_PendingSurvivesWithSignalOrPost ==
    /\ [] ((Stopped /\ Pending # << >>) => (work_sem >= 1 \/ PostOwed))
    /\ [] ((Stopped /\ \E n \in SeqSet(Pending) : Enqueued(n)) => work_sem >= 1)
    /\ PendingSurvivesRestart

\* Both requests were enqueued on the running queue before stop was called
\* and were left on the chain by the first worker; the queue was started
\* again without a destroy and the second worker, having detached both, is
\* executing the first.
C20_Witness ==
    /\ drain = "yes"
    /\ nstarts = 2 /\ ninits = 0 /\ running
    /\ wpc = "incb" /\ Batch = << 1, 2 >>
    /\ execLog = << [node |-> 1, work |-> made[1].work, data |-> made[1].work_data] >>
    /\ abandoned = {}

====
